---------------------------- MODULE Spec2Model ----------------------------
(***************************************************************************)
(* The application-shell bootstrap of src-tauri/src/lib.rs: run() acquires *)
(* the "main" and "panel" windows, builds the tray icon and its menu,      *)
(* installs the menu, tray, window and run-loop event handlers, and hands  *)
(* control to the host's event loop.                                       *)
(*                                                                         *)
(* The host (windows, tray, menu, plugins) is external.  Every fallible    *)
(* host call takes its outcome (Ok / Err) as an input; a call that returns *)
(* Err has no effect on the window.  A call is recorded in `calls` whether *)
(* it succeeds or not.                                                     *)
(***************************************************************************)
EXTENDS Integers, Sequences, FiniteSets, TLC

VARIABLES
  env,          \* build and host facts run() meets during setup
  phase,        \* "setup" | "running" | "exited" | "panicked"
  exit_code,    \* the code given to app.exit, or NoCode
  tray_icon,    \* "none" | "bundled" | "default": the image the tray was built with
  windows,      \* label -> [exists, visible, minimized, position]
  focus,        \* the label of the focused window, or "none"
  lastEvent,    \* the event the host dispatched last
  lastClick,    \* the position delivered with the last tray click
  calls,        \* the host calls the last handler issued, in order
  before,       \* the target window (and focus) as the last handler found it
  odd_clicks    \* history: whether the number of left clicks handled is odd

vars == << env, phase, exit_code, tray_icon, windows, focus, lastEvent,
           lastClick, calls, before, odd_clicks >>

---------------------------------------------------------------------------
(* Bounds and constants *)

\* (position.x - 190.0): half the panel's width.
HalfPanelWidth == 190

\* `as i32` saturates at the bounds of a 32-bit signed integer.
I32Max == 2147483647

I32Min == (-I32Max) - 1

NoCode == "none"

Labels == {"main", "panel"}

\* An f64 coordinate with at most one binary digit after the point:
\* the value is whole + frac/2, whole = floor(value), frac \in {0, 1}.
F64(whole, frac) == [whole |-> whole, frac |-> frac]

\* The tray click positions the host delivers (PhysicalPosition<f64>).
ClickPositions ==
  { [x |-> F64(400, 0), y |-> F64(12, 0)],
    [x |-> F64(100, 1), y |-> F64(12, 1)] }

NoClick == [x |-> F64(0, 0), y |-> F64(0, 0)]

\* Where the window declaration puts the panel before any click.
DeclaredPosition == [x |-> 640, y |-> 360]

Buttons == {"Left", "Right"}

MenuIds == {"quit", "show", "other"}

\* The outcomes of the fallible host calls named in ops.
Outcomes(ops) == [ops -> BOOLEAN]


---------------------------------------------------------------------------
(* The host's window calls.  st is [windows, focus, calls, phase,          *)
(* exit_code]; every call appends itself to st.calls, then acts if Ok.     *)

Call(w, op, ok) == [window |-> w, op |-> op, ok |-> ok]

Issue(st, w, op, ok) == [st EXCEPT !.calls = Append(@, Call(w, op, ok))]

\* app.get_webview_window(label): Some(window) while the window exists.
get_webview_window(st, w) == st.windows[w].exists

\* window.is_visible(): Ok(visible) or Err.
is_visible(st, w, ok) ==
  IF ok THEN [ok |-> TRUE, value |-> st.windows[w].visible]
        ELSE [ok |-> FALSE, value |-> FALSE]

\* Mutant of unwrap_or: a failed query counts as visible.
unwrap_or_true(result, default) == IF result.ok THEN result.value ELSE TRUE

\* Result::unwrap_or(default)
unwrap_or(result, default) == IF result.ok THEN result.value ELSE default

\* window.show()
show(st, w, ok) ==
  LET s == Issue(st, w, "show", ok)
  IN  IF ok THEN [s EXCEPT !.windows[w].visible = TRUE] ELSE s

\* window.hide(): a hidden window does not keep the focus.
hide(st, w, ok) ==
  LET s == Issue(st, w, "hide", ok)
  IN  IF ok
        THEN [s EXCEPT !.windows[w].visible = FALSE,
                       !.focus = IF @ = w THEN "none" ELSE @]
        ELSE s

\* window.unminimize()
unminimize(st, w, ok) ==
  LET s == Issue(st, w, "unminimize", ok)
  IN  IF ok THEN [s EXCEPT !.windows[w].minimized = FALSE] ELSE s

\* window.set_focus(): only a window on screen takes the focus.
set_focus(st, w, ok) ==
  LET s == Issue(st, w, "set_focus", ok)
  IN  IF ok /\ s.windows[w].visible THEN [s EXCEPT !.focus = w] ELSE s

\* window.set_position(Position::Physical(pos))
set_position(st, w, pos, ok) ==
  LET s == Issue(st, w, "set_position", ok)
  IN  IF ok THEN [s EXCEPT !.windows[w].position = pos] ELSE s

\* api.prevent_close(): cannot fail; the default close (destroying the
\* window) is what happens when it is not called.
prevent_close(st, w) == Issue(st, w, "prevent_close", TRUE)

DefaultClose(st, w) ==
  [st EXCEPT !.windows[w].exists = FALSE,
             !.windows[w].visible = FALSE,
             !.focus = IF @ = w THEN "none" ELSE @]

\* app.exit(code): the process ends with that code.
exit(st, code) ==
  [Issue(st, "app", "exit", TRUE) EXCEPT !.phase = "exited", !.exit_code = code]

\* Mutant of as_i32: rounds down instead of toward zero.
as_i32_floor(f) ==
  IF f.whole > I32Max THEN I32Max ELSE IF f.whole < I32Min THEN I32Min ELSE f.whole

\* f64 `as i32`: truncation toward zero, saturating at the i32 bounds.
as_i32(f) ==
  LET t == IF f.whole < 0 /\ f.frac = 1 THEN f.whole + 1 ELSE f.whole
  IN  IF t > I32Max THEN I32Max ELSE IF t < I32Min THEN I32Min ELSE t

\* position.x - 190.0
panel_x(position) == F64(position.x.whole - HalfPanelWidth, position.x.frac)

---------------------------------------------------------------------------
(* The handlers run() installs *)

\* Mutant of menu_show: unminimize is left out.
menu_show_no_unminimize(st, ok) ==
  IF get_webview_window(st, "main")
    THEN set_focus(show(st, "main", ok["show"]), "main", ok["set_focus"])
    ELSE st

\* Mutant of menu_show: unminimize is called before show.
menu_show_unminimize_first(st, ok) ==
  IF get_webview_window(st, "main")
    THEN set_focus(show(unminimize(st, "main", ok["unminimize"]),
                        "main", ok["show"]),
                   "main", ok["set_focus"])
    ELSE st

\* Mutant of menu_show: each call's error is propagated (window.show()?),
\* so the first failure ends the handler.
menu_show_propagating(st, ok) ==
  IF ~get_webview_window(st, "main") THEN st
  ELSE IF ~ok["show"] THEN show(st, "main", FALSE)
  ELSE IF ~ok["unminimize"]
    THEN unminimize(show(st, "main", TRUE), "main", FALSE)
  ELSE set_focus(unminimize(show(st, "main", TRUE), "main", TRUE),
                 "main", ok["set_focus"])

\* on_menu_event, the "show" arm
menu_show(st, ok) ==
  IF get_webview_window(st, "main")
    THEN set_focus(unminimize(show(st, "main", ok["show"]),
                              "main", ok["unminimize"]),
                   "main", ok["set_focus"])
    ELSE st

\* Mutant of on_menu_event: "quit" closes the main window the way the
\* close handler does, and the process keeps running.
on_menu_event_quit_closes(st, id, ok) ==
  CASE id = "quit" -> hide(prevent_close(st, "main"), "main", TRUE)
    [] id = "show" -> menu_show(st, ok)
    [] OTHER -> st

\* on_menu_event
on_menu_event(st, id, ok) ==
  CASE id = "quit" -> exit(st, 0)
    [] id = "show" -> menu_show(st, ok)
    [] OTHER -> st

\* on_tray_icon_event, the branch taken when the panel is not visible
panel_show(st, position, ok) ==
  LET target == [x |-> as_i32(panel_x(position)), y |-> 0]
  IN  set_focus(show(set_position(st, "panel", target, ok["set_position"]),
                     "panel", ok["show"]),
                "panel", ok["set_focus"])

\* Mutant of on_tray_icon_event: the visibility test is left out and every
\* left click shows the panel.
on_tray_icon_event_never_hides(st, button, position, ok) ==
  IF button = "Left" /\ get_webview_window(st, "panel")
    THEN panel_show(Issue(st, "panel", "is_visible", ok["is_visible"]),
                    position, ok)
    ELSE st

\* on_tray_icon_event
on_tray_icon_event(st, button, position, ok) ==
  IF button = "Left" /\ get_webview_window(st, "panel")
    THEN LET s == Issue(st, "panel", "is_visible", ok["is_visible"])
         IN  IF unwrap_or(is_visible(st, "panel", ok["is_visible"]), FALSE)
               THEN hide(s, "panel", ok["hide"])
               ELSE panel_show(s, position, ok)
    ELSE st

\* Mutant of on_window_event: the close is not prevented.
on_window_event_no_prevent(st, ok) == hide(st, "main", ok["hide"])

\* main_window.on_window_event, registered on macOS only
on_window_event(st, ok) == hide(prevent_close(st, "main"), "main", ok["hide"])

\* A close request: on macOS the main window's handler runs first; the
\* host then closes the window unless the handler prevented it.
close_requested(st, macos, w, ok) ==
  LET s == IF macos /\ w = "main" THEN on_window_event(st, ok) ELSE st
      prevented == \E i \in 1..Len(s.calls) :
                     s.calls[i].op = "prevent_close" /\ s.calls[i].window = w
  IN  IF prevented THEN s ELSE DefaultClose(s, w)

\* Mutant of reopen: the window is focused without being shown.
reopen_no_show(st, ok) ==
  IF get_webview_window(st, "main")
    THEN set_focus(unminimize(st, "main", ok["unminimize"]),
                   "main", ok["set_focus"])
    ELSE st

\* RunEvent::Reopen, handled on macOS only
reopen(st, ok) ==
  IF get_webview_window(st, "main")
    THEN set_focus(unminimize(show(st, "main", ok["show"]),
                              "main", ok["unminimize"]),
                   "main", ok["set_focus"])
    ELSE st

---------------------------------------------------------------------------
(* Setup *)

\* image::load_from_memory(...): Some(image) or None
tray_icon_image(e) == IF e.decode_ok THEN "bundled" ELSE "none"

\* Mutant of icon_or_default: tray_icon.unwrap(), without the fallback.
icon_unwrap(e, image) == IF image # "none" THEN image ELSE "panic"

\* tray_icon.unwrap_or_else(|| app.default_window_icon().unwrap().clone())
icon_or_default(e, image) ==
  IF image # "none" THEN image
  ELSE IF e.default_icon THEN "default"
  ELSE "panic"

Panicked == [phase |-> "panicked", tray_icon |-> "none"]

\* The setup closure, and the expect on the builder's result: every
\* unwrap, expect and ? that fails ends the process before the event loop.
setup(e) ==
  IF ~e.main_declared \/ ~e.panel_declared THEN Panicked
  ELSE IF e.macos /\ ~e.vibrancy_ok THEN Panicked
  ELSE IF ~e.menu_ok THEN Panicked
  ELSE LET icon == icon_or_default(e, tray_icon_image(e))
       IN  IF icon = "panic" \/ ~e.tray_ok THEN Panicked
           ELSE IF ~e.plugins_ok THEN Panicked
           ELSE [phase |-> "running", tray_icon |-> icon]

---------------------------------------------------------------------------
(* State *)

Environments ==
  [macos : BOOLEAN, main_declared : BOOLEAN, panel_declared : BOOLEAN,
   vibrancy_ok : BOOLEAN, decode_ok : BOOLEAN, default_icon : BOOLEAN,
   menu_ok : BOOLEAN, tray_ok : BOOLEAN, plugins_ok : BOOLEAN]

Window(exists, visible) ==
  [exists |-> exists, visible |-> exists /\ visible, minimized |-> FALSE,
   position |-> DeclaredPosition]

Snapshot(w) ==
  [window |-> w, exists |-> windows[w].exists, visible |-> windows[w].visible,
   minimized |-> windows[w].minimized, focused |-> focus = w]

NoSnapshot ==
  [window |-> "none", exists |-> FALSE, visible |-> FALSE,
   minimized |-> FALSE, focused |-> FALSE]

\* Before setup: the host has created the declared windows.  The panel
\* starts Hidden, the start the specification gives for the tray toggle;
\* the main window starts shown or hidden, as its declaration says.
Init ==
  /\ env \in Environments
  /\ phase = "setup"
  /\ exit_code = NoCode
  /\ tray_icon = "none"
  /\ \E mv \in BOOLEAN :
       windows = [w \in Labels |->
                    IF w = "main" THEN Window(env.main_declared, mv)
                                  ELSE Window(env.panel_declared, FALSE)]
  /\ focus = "none"
  /\ lastEvent = "none"
  /\ lastClick = NoClick
  /\ calls = << >>
  /\ before = NoSnapshot
  /\ odd_clicks = FALSE

\* The state a handler starts from: no call issued yet.
Host ==
  [windows |-> windows, focus |-> focus, calls |-> << >>,
   phase |-> phase, exit_code |-> exit_code]

\* The state a handler leaves.
Leave(st, event, target, position) ==
  /\ windows' = st.windows
  /\ focus' = st.focus
  /\ calls' = st.calls
  /\ phase' = st.phase
  /\ exit_code' = st.exit_code
  /\ lastEvent' = event
  /\ lastClick' = position
  /\ before' = IF target = "none" THEN NoSnapshot ELSE Snapshot(target)

Setup ==
  /\ phase = "setup"
  /\ phase' = setup(env).phase
  /\ tray_icon' = setup(env).tray_icon
  /\ lastEvent' = "setup"
  /\ UNCHANGED << env, exit_code, windows, focus, lastClick, calls, before,
                  odd_clicks >>

MenuEvent ==
  /\ phase = "running"
  /\ \E id \in MenuIds, ok \in Outcomes({"show", "unminimize", "set_focus"}) :
       Leave(on_menu_event(Host, id, ok), id, "main", NoClick)
  /\ UNCHANGED << env, tray_icon, odd_clicks >>

FailedIn(log, ops) ==
  \E i \in 1..Len(log) : log[i].op \in ops /\ ~log[i].ok

\* The host delivers a position with every click; the handler reads it
\* for a left click only.
TrayIconEvent ==
  /\ phase = "running"
  /\ \E button \in Buttons :
     \E position \in IF button = "Left" THEN ClickPositions ELSE {NoClick} :
     \E ok \in Outcomes({"is_visible", "hide", "set_position", "show",
                         "set_focus"}) :
       LET st == on_tray_icon_event(Host, button, position, ok)
       IN  /\ button # "Left" => \A op \in DOMAIN ok : ok[op]
           /\ Leave(st, IF button = "Left" THEN "click" ELSE "tray_other",
                    "panel", position)
           /\ odd_clicks' = IF button = "Left" THEN ~odd_clicks ELSE odd_clicks
  /\ UNCHANGED << env, tray_icon >>

CloseRequested ==
  /\ phase = "running"
  /\ \E w \in Labels, ok \in Outcomes({"hide"}) :
       /\ windows[w].exists
       /\ Leave(close_requested(Host, env.macos, w, ok), "close_" \o w, w, NoClick)
  /\ UNCHANGED << env, tray_icon, odd_clicks >>

Reopen ==
  /\ phase = "running"
  /\ env.macos
  /\ \E ok \in Outcomes({"show", "unminimize", "set_focus"}) :
       Leave(reopen(Host, ok), "reopen", "main", NoClick)
  /\ UNCHANGED << env, tray_icon, odd_clicks >>

\* Every other event falls through `_ => {}`: the user minimizes the main
\* window, gives it the focus, or takes the focus away; no handler runs.
host_window_event(st, kind) ==
  CASE kind = "minimize" ->
         [st EXCEPT !.windows["main"].minimized = TRUE,
                    !.focus = IF @ = "main" THEN "none" ELSE @]
    [] kind = "focus" -> [st EXCEPT !.focus = "main"]
    [] OTHER -> [st EXCEPT !.focus = "none"]

OtherEvent ==
  /\ phase = "running"
  /\ \E kind \in {"minimize", "focus", "blur"} :
       /\ kind \in {"minimize", "focus"} =>
            windows["main"].visible /\ ~windows["main"].minimized
       /\ Leave(host_window_event(Host, kind), "other", "none", NoClick)
  /\ UNCHANGED << env, tray_icon, odd_clicks >>

Next ==
  \/ Setup
  \/ MenuEvent
  \/ TrayIconEvent
  \/ CloseRequested
  \/ Reopen
  \/ OtherEvent

Spec == Init /\ [][Next]_vars

---------------------------------------------------------------------------
(* Properties *)

\* The operations of a call log, in the order issued.
Ops(log) == [i \in 1..Len(log) |-> log[i].op]

AllOk(log) == \A i \in 1..Len(log) : log[i].ok

ShowSequence == << "show", "unminimize", "set_focus" >>

PanelShowSequence == << "is_visible", "set_position", "show", "set_focus" >>

PanelHideSequence == << "is_visible", "hide" >>

C2_QuitExitsZero ==
  lastEvent = "quit" =>
    /\ phase = "exited"
    /\ exit_code = 0
    /\ Ops(calls) = << "exit" >>
    /\ before = Snapshot("main")

\* C2 witness: quit on macOS while the main window is minimized and on
\* screen and the panel is Visible.
C2_Witness ==
  /\ lastEvent = "quit"
  /\ env.macos
  /\ windows["main"].visible
  /\ windows["main"].minimized
  /\ windows["panel"].visible

\* C3 as stated: with close interception, after a close request the main
\* window exists and is Hidden, the process runs and the tray is active.
C3_CloseEndsHidden ==
  (lastEvent = "close_main" /\ env.macos) =>
    /\ windows["main"].exists
    /\ ~windows["main"].visible
    /\ phase = "running"
    /\ tray_icon # "none"

\* C3, amended: with close interception, a close request never destroys
\* the main window: the close is prevented, hide is called, the process
\* runs and the tray is active; the window is Hidden when the hide call
\* succeeds and keeps its visibility when it fails.
C3_CloseNeverDestroys ==
  (lastEvent = "close_main" /\ env.macos) =>
    /\ windows["main"].exists
    /\ Ops(calls) = << "prevent_close", "hide" >>
    /\ windows["main"].visible = (IF calls[2].ok THEN FALSE ELSE before.visible)
    /\ phase = "running"
    /\ tray_icon # "none"

\* C3 witness: a Visible, focused main window hidden by a close request.
C3_Witness ==
  /\ lastEvent = "close_main"
  /\ env.macos
  /\ before.visible
  /\ before.focused
  /\ windows["main"].exists
  /\ ~windows["main"].visible

ClickFoundHidden == lastEvent = "click" /\ before.exists /\ ~before.visible

OnlyDecodeFails ==
  /\ ~env.decode_ok
  /\ env.main_declared /\ env.panel_declared
  /\ env.macos => env.vibrancy_ok
  /\ env.default_icon
  /\ env.menu_ok /\ env.tray_ok /\ env.plugins_ok

ShowFoundMinimized == lastEvent = "show" /\ before.exists /\ before.minimized

\* C8 as stated: on "show" with the main window minimized, unminimize is
\* the first call, before show and set_focus.
C8_UnminimizeFirst ==
  ShowFoundMinimized => calls[1].op = "unminimize"

\* C8, amended: on "show" with the main window minimized, show is the
\* first call, unminimize the second and set_focus the third.
C8_UnminimizeAfterShow ==
  ShowFoundMinimized =>
    /\ Len(calls) = 3
    /\ calls[1].op = "show"
    /\ calls[2].op = "unminimize"
    /\ calls[3].op = "set_focus"

\* C8 witness: "show" restored a minimized main window.
C8_Witness ==
  /\ ShowFoundMinimized
  /\ calls[2].ok
  /\ ~windows["main"].minimized

\* The last left click's visibility query failed.
QueryFailed ==
  /\ lastEvent = "click"
  /\ before.exists
  /\ calls[1].op = "is_visible"
  /\ ~calls[1].ok

\* C9: a left click whose visibility query fails takes the show branch
\* (set_position, show, set_focus) and never calls hide, whether the panel
\* is Visible or Hidden.
C9_FailedQueryShows ==
  QueryFailed =>
    /\ Ops(calls) = PanelShowSequence
    /\ \A i \in 1..Len(calls) : calls[i].op # "hide"
    /\ before.visible => windows["panel"].visible

\* C9 witness: the query failed while the panel was Visible, and the panel
\* was moved and stays Visible.
C9_Witness ==
  /\ QueryFailed
  /\ before.visible
  /\ calls[2].ok
  /\ windows["panel"].visible

\* C10: every handler issues its whole sequence of host calls whichever of
\* them fail, and leaves the process running.
C10_FailuresSwallowed ==
  /\ (lastEvent \in {"show", "reopen"} /\ before.exists)
       => Ops(calls) = ShowSequence
  /\ (lastEvent = "close_main" /\ env.macos)
       => Ops(calls) = << "prevent_close", "hide" >>
  /\ (lastEvent = "click" /\ before.exists)
       => Ops(calls) = (IF calls[1].ok /\ before.visible
                          THEN PanelHideSequence ELSE PanelShowSequence)
  /\ lastEvent \in {"show", "reopen", "close_main", "close_panel", "click",
                    "tray_other", "other", "setup"}
       => phase \in {"running", "panicked"}
  /\ phase = "panicked" => lastEvent = "setup"

\* C10 witness: a tray click whose set_position and show calls failed still
\* called set_focus, after an earlier odd number of clicks.
C10_Witness ==
  /\ lastEvent = "click"
  /\ phase = "running"
  /\ Len(calls) = 4
  /\ ~calls[2].ok
  /\ ~calls[3].ok
  /\ calls[4].ok
  /\ ~odd_clicks

=============================================================================
